---- MODULE Spec2Model ----
(***************************************************************************)
(* The recommendation workflow of src/main.py: a four-node graph           *)
(* ("User Interaction", "Retrieval", "Filtering", "Final Response") driven *)
(* from an initial state dict to END, calling the language model           *)
(* (LLMService) and the document store (Database).                         *)
(*                                                                         *)
(* Texts are sequences of one-character strings, so that str.lower() and   *)
(* str.split() are computed and not assumed.  The language model and the   *)
(* store's availability are outside the program: every call may fail or    *)
(* answer any text of the bounded set.                                     *)
(***************************************************************************)
EXTENDS Naturals, Sequences, FiniteSets, TLC

VARIABLES
    pc,        \* where the run is: "idle", a node name, "END", "done", "raised"
    mode,      \* which entry point started the run: "run" or "get_state"
    state,     \* the state dict threaded through the nodes
    store,     \* the rows of the documents table
    returned,  \* what the entry point returned to its caller
    trace,     \* the nodes executed so far, in order
    calls,     \* the client calls made so far, in order
    db,        \* a direct use of the Database methods: the call in progress
    runs,      \* concurrent requests: each one's position, input, calls, result
    heap       \* concurrent requests: the state dict each invocation allocated

\* What the single run leaves alone.
aux == <<db, runs, heap>>

vars == <<pc, mode, state, store, returned, trace, calls, db, runs, heap>>

----------------------------------------------------------------------------
(* Bounds *)

MaxPrefLen == 3
MaxRows == 2

\* A direct use of the Database methods: the rows of the table, the genres
\* one query_documents call is asked for, the calls of get_available_categories.
MaxDbRows == 5
MaxCats == 2
MaxListCalls == 2

\* Characters: a lowercase letter, its uppercase form, a second letter, a blank.
Chars == {"a", "A", "b", " "}

\* The texts the program tokenizes and matches: preference summaries.
Texts(n) == UNION {[1..k -> Chars] : k \in 0..n}

\* The texts the program only stores and passes on (the user's input, the
\* filtered and the final answer): it never looks inside them, so the empty
\* text and one other stand for all of them.
Opaque == {<<>>, <<"x">>}

\* Genre labels a row of the store may carry: two that differ only by case,
\* a second label, and one that contains a blank.
GenreOrder == << <<"a">>, <<"A">>, <<"b">>, <<"a", " ", "b">> >>

Genres == {GenreOrder[i] : i \in DOMAIN GenreOrder}

GenreRank(g) == CHOOSE i \in DOMAIN GenreOrder : GenreOrder[i] = g

Rows == [title : {<<"t">>}, author : {<<>>}, director : {<<>>}, genre : Genres]

\* The documents table: at most MaxRows rows.  The order of its rows decides
\* nothing but the order of the items within one query's answer, so one
\* order stands for each collection of rows: the one that follows GenreOrder.
StoresUpTo(n) ==
    {t \in UNION {[1..k -> Rows] : k \in 0..n} :
        \A i, j \in DOMAIN t : i < j => GenreRank(t[i].genre) <= GenreRank(t[j].genre)}

Stores == StoresUpTo(MaxRows)

----------------------------------------------------------------------------
(* Text functions *)

\* str.lower() on one character
LowerChar(c) == IF c = "A" THEN "a" ELSE IF c = "B" THEN "b" ELSE c

\* str.lower()
Lower(s) == [i \in 1..Len(s) |-> LowerChar(s[i])]

IsSpace(c) == c = " "

\* str.split() without arguments: the maximal runs of non-blank characters
RECURSIVE SplitFrom(_, _, _)
SplitFrom(s, cur, acc) ==
    IF s = <<>>
    THEN IF cur = <<>> THEN acc ELSE Append(acc, cur)
    ELSE IF IsSpace(Head(s))
         THEN SplitFrom(Tail(s), <<>>, IF cur = <<>> THEN acc ELSE Append(acc, cur))
         ELSE SplitFrom(Tail(s), Append(cur, Head(s)), acc)

Split(s) == SplitFrom(s, <<>>, <<>>)

Range(f) == {f[i] : i \in DOMAIN f}

\* The orders in which a set may be iterated
Perms(S) == {p \in [1..Cardinality(S) -> S] : Range(p) = S}

RECURSIVE Flatten(_)
Flatten(ss) == IF ss = <<>> THEN <<>> ELSE Head(ss) \o Flatten(Tail(ss))

\* Python's truth value of a str or a list
Truthy(x) == Len(x) > 0

----------------------------------------------------------------------------
(* Database (src/main.py 32-61) *)

\* PostgreSQL's ILIKE as the store applies it to one genre label: letters
\* match without regard to case, "%" (or PostgREST's "*") matches any run of
\* characters and "_" any one character.
RECURSIVE ILike(_, _)
ILike(text, pattern) ==
    IF pattern = <<>>
    THEN text = <<>>
    ELSE IF Head(pattern) \in {"%", "*"}
         THEN \/ ILike(text, Tail(pattern))
              \/ text # <<>> /\ ILike(Tail(text), pattern)
         ELSE /\ text # <<>>
              /\ Head(pattern) = "_" \/ LowerChar(Head(pattern)) = LowerChar(Head(text))
              /\ ILike(Tail(text), Tail(pattern))

\* {item["genre"].lower() for item in response.data}
CategorySet(rows) == {Lower(rows[i].genre) : i \in DOMAIN rows}

\* As get_available_categories, but giving only the genre that comes first.
get_available_categories_First(rows, ok, order) ==
    IF ok
    THEN [raised |-> FALSE, value |-> IF rows # <<>> THEN <<Head(order)>> ELSE <<>>]
    ELSE [raised |-> TRUE, value |-> <<>>]

\* get_available_categories: the distinct lower-cased genres as a list, in the
\* order the set happens to be iterated (order); raises when the store call
\* fails (ok = FALSE).
get_available_categories(rows, ok, order) ==
    IF ok
    THEN [raised |-> FALSE, value |-> IF rows # <<>> THEN order ELSE <<>>]
    ELSE [raised |-> TRUE, value |-> <<>>]

\* .filter("genre", "ilike", genre): the rows whose genre matches, in table order
Matching(rows, genre) == SelectSeq(rows, LAMBDA r : ILike(r.genre, genre))

\* As query_documents, but the except branch returns what was fetched before
\* the failing query instead of raising.
query_documents_Partial(genres, rows, failAt) ==
    LET n == IF failAt \in 1..Len(genres) THEN failAt - 1 ELSE Len(genres)
    IN  [raised |-> FALSE,
         value |-> Flatten([i \in 1..n |-> Matching(rows, genres[i])])]

\* As query_documents, with the try/except inside the loop: a failing store
\* query is skipped and the rows of the other genres are returned.
query_documents_SkipsFailed(genres, rows, failAt) ==
    [raised |-> FALSE,
     value |-> Flatten([i \in 1..Len(genres) |->
                           IF i = failAt THEN <<>> ELSE Matching(rows, genres[i])])]

\* query_documents: one store query per genre, in the order of genres, results
\* concatenated; raises when the failAt-th of these queries fails (0: none).
query_documents(genres, rows, failAt) ==
    IF failAt \in 1..Len(genres)
    THEN [raised |-> TRUE, value |-> <<>>]
    ELSE [raised |-> FALSE,
          value |-> Flatten([i \in 1..Len(genres) |-> Matching(rows, genres[i])])]

----------------------------------------------------------------------------
(* LLMService (src/main.py 101-111) *)

\* What the provider may do with one request: fail, or answer a text.
Provider(texts) == {[ok |-> FALSE, content |-> <<>>]}
                     \cup {[ok |-> TRUE, content |-> t] : t \in texts}

\* As get_response, but the except branch returns the error's text.
get_response_ReturnsError(system_prompt, user_input, answer) ==
    IF answer.ok
    THEN [raised |-> FALSE, value |-> answer.content]
    ELSE [raised |-> FALSE, value |-> <<"x">>]

\* get_response: the provider's text, or an HTTPException when it failed.
get_response(system_prompt, user_input, answer) ==
    IF answer.ok
    THEN [raised |-> FALSE, value |-> answer.content]
    ELSE [raised |-> TRUE, value |-> <<>>]

\* One entry of the log of client calls: the node that made the call, the
\* client and method, whether the service behind it succeeded, the text the
\* language model answered, the genres query_documents was asked for and
\* which of its store queries failed (0: none).
LlmCall(node, answer) ==
    [node |-> node, client |-> "llm", op |-> "get_response", ok |-> answer.ok,
     text |-> answer.content, genres |-> <<>>, failedAt |-> 0]

DbCall(node, op, ok, genres) ==
    [node |-> node, client |-> "db", op |-> op, ok |-> ok, text |-> <<>>,
     genres |-> genres, failedAt |-> 0]

QueryCall(node, genres, failAt) ==
    [DbCall(node, "query_documents", failAt \notin 1..Len(genres), genres)
        EXCEPT !.failedAt = IF failAt \in 1..Len(genres) THEN failAt ELSE 0]

----------------------------------------------------------------------------
(* RecommendationWorkflow: the stage functions (src/main.py 149-194).       *)
(* Each takes the state dict and what the clients answer, and gives the    *)
(* state it returns, whether an exception left it, and the calls it made.  *)

Outcome(s, raised, made) == [state |-> s, raised |-> raised, calls |-> made]

\* As user_interaction_agent, but the except branch stores a message in the
\* preferences instead of leaving them alone.
user_interaction_agent_StoresError(s, answer) ==
    LET r == get_response("collect user preferences", s.user_input, answer)
        made == <<LlmCall("User Interaction", answer)>>
    IN  IF r.raised
        THEN Outcome([s EXCEPT !.user_preferences = <<"a">>], FALSE, made)
        ELSE Outcome([s EXCEPT !.user_preferences = r.value], FALSE, made)

user_interaction_agent(s, answer) ==
    LET system_prompt == "collect user preferences"
        r == get_response(system_prompt, s.user_input, answer)
        made == <<LlmCall("User Interaction", answer)>>
    IN  IF r.raised
        THEN Outcome(s, FALSE, made)
        ELSE Outcome([s EXCEPT !.user_preferences = r.value], FALSE, made)

\* As retrieval_agent, selecting the categories that occur anywhere in the
\* lower-cased preference text instead of those equal to one of its words.
retrieval_agent_Substring(s, rows, listOk, order, failAt) ==
    LET avail == get_available_categories(rows, listOk, order)
        listed == <<DbCall("Retrieval", "get_available_categories", listOk, <<>>)>>
    IN  IF avail.raised
        THEN Outcome(s, FALSE, listed)
        ELSE LET text == Lower(s.user_preferences)
                 selected_categories ==
                     SelectSeq(avail.value,
                               LAMBDA c : \E i \in 0..Len(text) :
                                   /\ i + Len(c) <= Len(text)
                                   /\ SubSeq(text, i + 1, i + Len(c)) = c)
             IN  IF Truthy(selected_categories)
                 THEN LET q == query_documents(selected_categories, rows, failAt)
                          made == Append(listed,
                                         QueryCall("Retrieval", selected_categories, failAt))
                      IN  IF q.raised
                          THEN Outcome(s, FALSE, made)
                          ELSE Outcome([s EXCEPT !.retrieved_items = q.value], FALSE, made)
                 ELSE Outcome([s EXCEPT !.retrieved_items = <<>>], FALSE, listed)

\* As retrieval_agent, without lower-casing the preference text.
retrieval_agent_NoLower(s, rows, listOk, order, failAt) ==
    LET avail == get_available_categories(rows, listOk, order)
        listed == <<DbCall("Retrieval", "get_available_categories", listOk, <<>>)>>
    IN  IF avail.raised
        THEN Outcome(s, FALSE, listed)
        ELSE LET user_preferences == Range(Split(s.user_preferences))
                 selected_categories ==
                     SelectSeq(avail.value, LAMBDA c : c \in user_preferences)
             IN  IF Truthy(selected_categories)
                 THEN LET q == query_documents(selected_categories, rows, failAt)
                          made == Append(listed,
                                         QueryCall("Retrieval", selected_categories, failAt))
                      IN  IF q.raised
                          THEN Outcome(s, FALSE, made)
                          ELSE Outcome([s EXCEPT !.retrieved_items = q.value], FALSE, made)
                 ELSE Outcome([s EXCEPT !.retrieved_items = <<>>], FALSE, listed)

retrieval_agent(s, rows, listOk, order, failAt) ==
    LET avail == get_available_categories(rows, listOk, order)
        listed == <<DbCall("Retrieval", "get_available_categories", listOk, <<>>)>>
    IN  IF avail.raised
        THEN Outcome(s, FALSE, listed)
        ELSE LET available_categories == avail.value
                 user_preferences == Range(Split(Lower(s.user_preferences)))
                 selected_categories ==
                     SelectSeq(available_categories, LAMBDA c : c \in user_preferences)
             IN  IF Truthy(selected_categories)
                 THEN LET q == query_documents(selected_categories, rows, failAt)
                          made == Append(listed,
                                         QueryCall("Retrieval", selected_categories, failAt))
                      IN  IF q.raised
                          THEN Outcome(s, FALSE, made)
                          ELSE Outcome([s EXCEPT !.retrieved_items = q.value], FALSE, made)
                 ELSE Outcome([s EXCEPT !.retrieved_items = <<>>], FALSE, listed)

\* f"Title: {item['title']}, Author: {item['author']}, Director: ..., Genre: ..."
ItemLine(item) ==
    <<"Title: ">> \o item.title \o <<", Author: ">> \o item.author
        \o <<", Director: ">> \o item.director \o <<", Genre: ">> \o item.genre

\* "\n".join(lines)
RECURSIVE JoinLines(_)
JoinLines(lines) ==
    IF lines = <<>> THEN <<>>
    ELSE IF Len(lines) = 1 THEN Head(lines)
    ELSE Head(lines) \o <<"\n">> \o JoinLines(Tail(lines))

\* As filtering_agent, but asking the model a second time when it failed.
filtering_agent_Retry(s, answer) ==
    LET r == get_response("filter recommendations", s.user_preferences, answer)
        made == <<LlmCall("Filtering", answer)>>
    IN  IF r.raised
        THEN Outcome(s, FALSE, made \o made)
        ELSE Outcome([s EXCEPT !.filtered_recommendations = r.value], FALSE, made)

filtering_agent(s, answer) ==
    LET user_prefs == s.user_preferences
        system_prompt == "filter recommendations"
        formatted_items ==
            JoinLines([i \in 1..Len(s.retrieved_items) |-> ItemLine(s.retrieved_items[i])])
        r == get_response(system_prompt,
                          <<"User preferences: ">> \o user_prefs \o <<"\nItems:\n">>
                              \o formatted_items,
                          answer)
        made == <<LlmCall("Filtering", answer)>>
    IN  IF r.raised
        THEN Outcome(s, FALSE, made)
        ELSE Outcome([s EXCEPT !.filtered_recommendations = r.value], FALSE, made)

\* As final_response_agent, without the try/except around the model call.
final_response_agent_NoCatch(s, answer) ==
    LET r == get_response("format the recommendations",
                          <<"Here are the recommendations: ">> \o s.filtered_recommendations,
                          answer)
        made == <<LlmCall("Final Response", answer)>>
    IN  IF r.raised
        THEN Outcome(s, TRUE, made)
        ELSE Outcome([s EXCEPT !.final_response = r.value], FALSE, made)

\* As final_response_agent, but the except branch stores an apology.
final_response_agent_Fallback(s, answer) ==
    LET r == get_response("format the recommendations",
                          <<"Here are the recommendations: ">> \o s.filtered_recommendations,
                          answer)
        made == <<LlmCall("Final Response", answer)>>
    IN  IF r.raised
        THEN Outcome([s EXCEPT !.final_response = <<"x">>], FALSE, made)
        ELSE Outcome([s EXCEPT !.final_response = r.value], FALSE, made)

\* As final_response_agent, but writing the key the filtering stage writes.
final_response_agent_WrongKey(s, answer) ==
    LET r == get_response("format the recommendations",
                          <<"Here are the recommendations: ">> \o s.filtered_recommendations,
                          answer)
        made == <<LlmCall("Final Response", answer)>>
    IN  IF r.raised
        THEN Outcome(s, FALSE, made)
        ELSE Outcome([s EXCEPT !.filtered_recommendations = r.value], FALSE, made)

final_response_agent(s, answer) ==
    LET system_prompt == "format the recommendations"
        r == get_response(system_prompt,
                          <<"Here are the recommendations: ">> \o s.filtered_recommendations,
                          answer)
        made == <<LlmCall("Final Response", answer)>>
    IN  IF r.raised
        THEN Outcome(s, FALSE, made)
        ELSE Outcome([s EXCEPT !.final_response = r.value], FALSE, made)

----------------------------------------------------------------------------
(* RecommendationWorkflow: the graph (src/main.py 121-136) *)

Nodes == {"User Interaction", "Retrieval", "Filtering", "Final Response"}

entry_point == "User Interaction"

\* As next_node, with a plain edge from "User Interaction" to "Retrieval".
next_node_AlwaysRetrieve(node, s) ==
    CASE node = "User Interaction" -> "Retrieval"
      [] node = "Retrieval" ->
            IF Truthy(s.retrieved_items) THEN "Filtering" ELSE "Final Response"
      [] node = "Filtering" -> "Final Response"
      [] node = "Final Response" -> "END"

\* As next_node, with the edge out of "Filtering" going to END.
next_node_FilteringEnds(node, s) ==
    CASE node = "User Interaction" ->
            IF Truthy(s.user_preferences) THEN "Retrieval" ELSE "Final Response"
      [] node = "Retrieval" ->
            IF Truthy(s.retrieved_items) THEN "Filtering" ELSE "Final Response"
      [] node = "Filtering" -> "END"
      [] node = "Final Response" -> "END"

\* As next_node, with the edge out of "Filtering" going to END when the
\* filtering left no recommendations.
next_node_EndsOnEmptyFilter(node, s) ==
    CASE node = "User Interaction" ->
            IF Truthy(s.user_preferences) THEN "Retrieval" ELSE "Final Response"
      [] node = "Retrieval" ->
            IF Truthy(s.retrieved_items) THEN "Filtering" ELSE "Final Response"
      [] node = "Filtering" ->
            IF Truthy(s.filtered_recommendations) THEN "Final Response" ELSE "END"
      [] node = "Final Response" -> "END"

\* As next_node, with a plain edge from "Retrieval" to "Filtering".
next_node_AlwaysFilter(node, s) ==
    CASE node = "User Interaction" ->
            IF Truthy(s.user_preferences) THEN "Retrieval" ELSE "Final Response"
      [] node = "Retrieval" -> "Filtering"
      [] node = "Filtering" -> "Final Response"
      [] node = "Final Response" -> "END"

\* The edge taken out of a node, given the state the node returned.
next_node(node, s) ==
    CASE node = "User Interaction" ->
            IF Truthy(s.user_preferences) THEN "Retrieval" ELSE "Final Response"
      [] node = "Retrieval" ->
            IF Truthy(s.retrieved_items) THEN "Filtering" ELSE "Final Response"
      [] node = "Filtering" -> "Final Response"
      [] node = "Final Response" -> "END"

\* initial_state of run and get_state
initial_state(user_input) ==
    [user_input |-> user_input, user_preferences |-> <<>>, retrieved_items |-> <<>>,
     filtered_recommendations |-> <<>>, final_response |-> <<>>]

NoValue == [kind |-> "none"]

\* No Database method is being used directly.
DbIdle == [pc |-> "idle", genres |-> <<>>, i |-> 0, all_data |-> <<>>,
           queries |-> 0, lists |-> <<>>]

----------------------------------------------------------------------------
(* The run *)

Init ==
    /\ pc = "idle"
    /\ mode = "none"
    /\ state = initial_state(<<>>)
    /\ store \in Stores
    /\ returned = NoValue
    /\ trace = <<>>
    /\ calls = <<>>
    /\ db = DbIdle
    /\ runs = <<>>
    /\ heap = <<>>

\* Both entry points build the initial state and invoke the compiled graph.
run ==
    /\ pc = "idle"
    /\ \E user_input \in Opaque : state' = initial_state(user_input)
    /\ mode' = "run"
    /\ pc' = entry_point
    /\ UNCHANGED <<store, returned, trace, calls, aux>>

get_state ==
    /\ pc = "idle"
    /\ \E user_input \in Opaque : state' = initial_state(user_input)
    /\ mode' = "get_state"
    /\ pc' = entry_point
    /\ UNCHANGED <<store, returned, trace, calls, aux>>

\* The engine runs the node, takes its returned state and follows the edge;
\* an exception leaving the node leaves invoke and the entry point too.
Advance(node, out) ==
    /\ state' = out.state
    /\ calls' = calls \o out.calls
    /\ trace' = Append(trace, node)
    /\ pc' = IF out.raised THEN "raised" ELSE next_node(node, out.state)
    /\ UNCHANGED <<mode, store, returned, aux>>

UserInteraction ==
    /\ pc = "User Interaction"
    /\ \E answer \in Provider(Texts(MaxPrefLen)) :
           Advance("User Interaction", user_interaction_agent(state, answer))

Retrieval ==
    /\ pc = "Retrieval"
    /\ \E listOk \in BOOLEAN, order \in Perms(CategorySet(store)),
          failAt \in 0..Cardinality(CategorySet(store)) :
           Advance("Retrieval", retrieval_agent(state, store, listOk, order, failAt))

Filtering ==
    /\ pc = "Filtering"
    /\ \E answer \in Provider(Opaque) :
           Advance("Filtering", filtering_agent(state, answer))

FinalResponse ==
    /\ pc = "Final Response"
    /\ \E answer \in Provider(Opaque) :
           Advance("Final Response", final_response_agent(state, answer))

\* run returns response["final_response"], get_state the whole state.
Return ==
    /\ pc = "END"
    /\ returned' = IF mode = "run"
                   THEN [kind |-> "text", value |-> state.final_response]
                   ELSE [kind |-> "state", value |-> state]
    /\ pc' = "done"
    /\ UNCHANGED <<mode, state, store, trace, calls, aux>>

Next ==
    \/ run
    \/ get_state
    \/ UserInteraction
    \/ Retrieval
    \/ Filtering
    \/ FinalResponse
    \/ Return

Spec == Init /\ [][Next]_vars

Row(genre) == [title |-> <<"t">>, author |-> <<>>, director |-> <<>>, genre |-> genre]

\* The stores of the runs whose termination is checked: no row, one category,
\* two categories (so that a second store query can fail after a first).
FairStores == {<<>>, <<Row(<<"a">>)>>, <<Row(<<"a">>), Row(<<"b">>)>>} \cap Stores

FairInit == Init /\ store \in FairStores

\* invoke is a synchronous loop: a started run keeps stepping until it ends.
FairSpec == FairInit /\ [][Next]_vars /\ WF_vars(Next)

----------------------------------------------------------------------------
(* The Database methods used directly (src/main.py 41-61): a caller makes  *)
(* some calls of get_available_categories, or one call of query_documents, *)
(* whose loop is followed one store query at a time.                       *)

\* The genres a caller may ask for: two labels and one that holds "_", which
\* ILIKE reads as "any one character".
Patterns == {<<"a">>, <<"b">>, <<"_">>}

CatLists == UNION {[1..k -> Patterns] : k \in 0..MaxCats}

\* As extend, but leaving out the rows all_data already holds.
extend_Dedup(all_data, docs) ==
    all_data \o SelectSeq(docs, LAMBDA d : d \notin Range(all_data))

\* if docs.data: all_data.extend(docs.data)
extend(all_data, docs) == IF Truthy(docs) THEN all_data \o docs ELSE all_data

DbInit ==
    /\ pc = "idle"
    /\ mode = "none"
    /\ state = initial_state(<<>>)
    /\ store \in StoresUpTo(MaxDbRows)
    /\ returned = NoValue
    /\ trace = <<>>
    /\ calls = <<>>
    /\ db = DbIdle
    /\ runs = <<>>
    /\ heap = <<>>

workflow == <<pc, mode, state, store, returned, trace, calls, runs, heap>>

\* One call of get_available_categories; its list is kept when it succeeds.
db_list ==
    /\ db.pc \in {"idle", "listing"}
    /\ Len(db.lists) < MaxListCalls
    /\ \E ok \in BOOLEAN, order \in Perms(CategorySet(store)) :
           LET r == get_available_categories(store, ok, order)
           IN  db' = [db EXCEPT !.pc = "listing",
                                !.lists = IF r.raised THEN @ ELSE Append(@, r.value)]
    /\ UNCHANGED workflow

\* query_documents(genres) is entered: all_data = []
db_query_call ==
    /\ db.pc = "idle"
    /\ \E genres \in CatLists : db' = [db EXCEPT !.pc = "loop", !.genres = genres]
    /\ UNCHANGED workflow

\* One turn of the loop: the store query for the next genre either fails,
\* and the method raises, or its rows are added to all_data.
db_query_step ==
    /\ db.pc = "loop"
    /\ db.i < Len(db.genres)
    /\ \E ok \in BOOLEAN :
           db' = IF ok
                 THEN [db EXCEPT !.i = @ + 1, !.queries = @ + 1,
                                 !.all_data = extend(@, Matching(store, db.genres[db.i + 1]))]
                 ELSE [db EXCEPT !.pc = "raised", !.queries = @ + 1]
    /\ UNCHANGED workflow

\* The loop is over: return all_data
db_query_return ==
    /\ db.pc = "loop"
    /\ db.i = Len(db.genres)
    /\ db' = [db EXCEPT !.pc = "returned"]
    /\ UNCHANGED workflow

DbNext ==
    \/ db_list
    \/ db_query_call
    \/ db_query_step
    \/ db_query_return

DbSpec == DbInit /\ [][DbNext]_vars

----------------------------------------------------------------------------
(* Several requests served by the one recommender (src/main.py 196-205,    *)
(* 218-223, 256-263): the module-level Database, LLMService and            *)
(* RecommendationWorkflow are shared, each call of run or get_state builds *)
(* its own state dict and invokes the graph on it. The runs' stage steps   *)
(* are interleaved in every order. heap holds the state dicts, runs what   *)
(* each call holds in its frame; alone is the state the same call reaches  *)
(* from the same input and the same client responses with no other run.    *)

NumRuns == 2

RunIds == 1..NumRuns

\* As state_slot, with one state dict kept by the workflow object and used
\* by every call.
state_slot_Shared(r) == 1

\* The dict a call works on: initial_state is a local of the call, and
\* invoke carries the state from node to node within that call.
state_slot(r) == r

\* As result, with run returning the filtered recommendations.
result_ReturnsFiltered(m, s) ==
    IF m = "run"
    THEN [kind |-> "text", value |-> s.filtered_recommendations]
    ELSE [kind |-> "state", value |-> s]

\* run returns response["final_response"], get_state the whole response.
result(m, s) ==
    IF m = "run"
    THEN [kind |-> "text", value |-> s.final_response]
    ELSE [kind |-> "state", value |-> s]

ConcStores == {<<Row(<<"a">>)>>}

\* What the clients may answer to the one request a stage makes. Each
\* client fails at one stage or answers: the language model at "User
\* Interaction" and at "Final Response", the store when "Retrieval" lists
\* the categories; "Filtering" is answered, and no store query fails.
Responses(node) ==
    CASE node = "User Interaction" ->
            [answer : Provider({<<"a">>}), listOk : {TRUE}, order : {<<>>}, failAt : {0}]
      [] node = "Retrieval" ->
            [answer : {[ok |-> FALSE, content |-> <<>>]}, listOk : BOOLEAN,
             order : Perms(CategorySet(store)), failAt : {0}]
      [] node = "Filtering" ->
            [answer : {[ok |-> TRUE, content |-> <<"b">>]},
             listOk : {TRUE}, order : {<<>>}, failAt : {0}]
      [] node = "Final Response" ->
            [answer : Provider({<<"x">>}), listOk : {TRUE}, order : {<<>>}, failAt : {0}]

\* The node's function applied to a state dict.
Stage(node, s, resp) ==
    CASE node = "User Interaction" -> user_interaction_agent(s, resp.answer)
      [] node = "Retrieval" ->
            retrieval_agent(s, store, resp.listOk, resp.order, resp.failAt)
      [] node = "Filtering" -> filtering_agent(s, resp.answer)
      [] node = "Final Response" -> final_response_agent(s, resp.answer)

RunIdle ==
    [pc |-> "idle", mode |-> "none", input |-> <<>>, alone |-> initial_state(<<>>),
     trace |-> <<>>, calls |-> <<>>, returned |-> NoValue]

ConcInit ==
    /\ pc = "idle"
    /\ mode = "none"
    /\ state = initial_state(<<>>)
    /\ store \in ConcStores
    /\ returned = NoValue
    /\ trace = <<>>
    /\ calls = <<>>
    /\ db = DbIdle
    /\ runs = [r \in RunIds |-> RunIdle]
    /\ heap = [r \in RunIds |-> initial_state(<<>>)]

single == <<pc, mode, state, store, returned, trace, calls, db>>

\* A request enters run or get_state: the call builds its initial state.
conc_enter(r, m) ==
    /\ runs[r].pc = "idle"
    /\ \E user_input \in Opaque :
           /\ heap' = [heap EXCEPT ![state_slot(r)] = initial_state(user_input)]
           /\ runs' = [runs EXCEPT ![r] = [@ EXCEPT !.pc = entry_point, !.mode = m,
                                                    !.input = user_input,
                                                    !.alone = initial_state(user_input)]]
    /\ UNCHANGED single

conc_run(r) == conc_enter(r, "run")

conc_get_state(r) == conc_enter(r, "get_state")

\* One node of one call: it reads the call's state dict and writes it back.
conc_step(r) ==
    /\ runs[r].pc \in Nodes
    /\ \E resp \in Responses(runs[r].pc) :
           LET node == runs[r].pc
               out == Stage(node, heap[state_slot(r)], resp)
           IN  /\ heap' = [heap EXCEPT ![state_slot(r)] = out.state]
               /\ runs' = [runs EXCEPT ![r] =
                              [@ EXCEPT !.pc = IF out.raised THEN "raised"
                                               ELSE next_node(node, out.state),
                                        !.alone = Stage(node, @, resp).state,
                                        !.trace = Append(@, node),
                                        !.calls = @ \o out.calls]]
    /\ UNCHANGED single

conc_return(r) ==
    /\ runs[r].pc = "END"
    /\ runs' = [runs EXCEPT ![r] = [@ EXCEPT !.pc = "done",
                                             !.returned = result(runs[r].mode,
                                                                 heap[state_slot(r)])]]
    /\ UNCHANGED <<heap, single>>

ConcNext ==
    \E r \in RunIds :
        \/ conc_run(r)
        \/ conc_get_state(r)
        \/ conc_step(r)
        \/ conc_return(r)

ConcSpec == ConcInit /\ [][ConcNext]_vars

----------------------------------------------------------------------------
(* Properties *)

Executed(node) == \E i \in DOMAIN trace : trace[i] = node

TimesExecuted(node) == Cardinality({i \in DOMAIN trace : trace[i] = node})

CallsOf(client) == {i \in DOMAIN calls : calls[i].client = client}

\* The run is past its last stage: invoke has returned or the entry point has.
AtTerminal == pc \in {"END", "done"}

\* The node that runs, or ran, right after the k-th executed one.
After(k) == IF Len(trace) > k THEN trace[k + 1] ELSE pc

\* C1: a started run eventually reaches the end and returns a value, whatever
\* each model call and each store call does, and no failure leaves a stage.
C1_RunAlwaysReturns ==
    /\ (pc \in Nodes) ~> (pc = "done" /\ returned.kind # "none")
    /\ [](pc # "raised")

\* A run has returned although every call it made failed.
C1_Witness ==
    /\ pc = "done"
    /\ returned.kind # "none"
    /\ Len(calls) >= 2
    /\ \A i \in DOMAIN calls : ~calls[i].ok

\* C2: when user_preferences is empty after "User Interaction", the next
\* stage is "Final Response", "Retrieval" never runs, the store is never
\* called and retrieved_items stays empty.
C2_EmptyPreferencesSkipRetrieval ==
    (Len(trace) >= 1 /\ state.user_preferences = <<>>) =>
        /\ After(1) = "Final Response"
        /\ ~Executed("Retrieval")
        /\ CallsOf("db") = {}
        /\ state.retrieved_items = <<>>

\* The model answered the empty text (the call did not fail) and the run ended.
C2_Witness ==
    /\ pc = "done"
    /\ calls[1].ok
    /\ state.user_preferences = <<>>
    /\ trace = <<"User Interaction", "Final Response">>

\* C3: when user_preferences is not empty and none of its lower-cased words
\* is a category of the store, "Retrieval" leaves retrieved_items empty, never
\* calls query_documents, and is followed by "Final Response", not "Filtering".
C3_NoMatchingCategory ==
    ( /\ Len(trace) >= 2
      /\ trace[2] = "Retrieval"
      /\ Range(Split(Lower(state.user_preferences))) \cap CategorySet(store) = {} ) =>
        /\ state.retrieved_items = <<>>
        /\ \A i \in DOMAIN calls : calls[i].op # "query_documents"
        /\ After(2) = "Final Response"
        /\ ~Executed("Filtering")

\* The store lists its categories, the preferences hold a word that contains
\* one of them without being one, and the run ended.
C3_Witness ==
    /\ pc = "done"
    /\ trace = <<"User Interaction", "Retrieval", "Final Response">>
    /\ state.user_preferences = <<"a", "b">>
    /\ <<"a">> \in CategorySet(store)
    /\ calls[2].ok

\* C4: the first stage is "User Interaction"; the end is entered only from
\* "Final Response", which runs exactly once in a run and is its last stage.
C4_FinalResponseOnceAndLast ==
    /\ (pc \in Nodes /\ trace = <<>>) => pc = "User Interaction"
    /\ trace # <<>> => trace[1] = "User Interaction"
    /\ TimesExecuted("Final Response") <= 1
    /\ AtTerminal =>
          /\ trace # <<>>
          /\ trace[Len(trace)] = "Final Response"
          /\ TimesExecuted("Final Response") = 1

\* A run that went through all four stages has ended.
C4_Witness ==
    /\ pc = "done"
    /\ trace = <<"User Interaction", "Retrieval", "Filtering", "Final Response">>

\* C5: when the model call of "User Interaction" fails, user_preferences stays
\* empty, the run goes straight to "Final Response" (neither "Retrieval" nor
\* "Filtering" runs) and ends by returning a value.
C5_PreferenceFailure ==
    (Len(trace) >= 1 /\ ~calls[1].ok) =>
        /\ state.user_preferences = <<>>
        /\ After(1) = "Final Response"
        /\ ~Executed("Retrieval") /\ ~Executed("Filtering")
        /\ pc \in {"Final Response", "END", "done"}
        /\ pc = "done" => returned.kind # "none"

\* The first model call failed, the last one answered, and run returned.
C5_Witness ==
    /\ pc = "done"
    /\ mode = "run"
    /\ ~calls[1].ok
    /\ calls[2].ok
    /\ returned = [kind |-> "text", value |-> <<"x">>]

\* C6: when a store call fails during "Retrieval" (listing the categories or
\* querying the documents), the failure stays inside the stage,
\* retrieved_items is empty afterwards, "Final Response" follows without
\* "Filtering", and the run ends returning its final_response.
C6_StoreFailure ==
    (\E i \in CallsOf("db") : ~calls[i].ok) =>
        /\ state.retrieved_items = <<>>
        /\ After(2) = "Final Response"
        /\ ~Executed("Filtering")
        /\ pc \in {"Final Response", "END", "done"}
        /\ (pc = "done" /\ mode = "run") =>
               returned = [kind |-> "text", value |-> state.final_response]
        /\ (pc = "done" /\ mode = "get_state") =>
               returned = [kind |-> "state", value |-> state]

\* query_documents was asked for two categories and failed; the run ended.
C6_Witness ==
    /\ pc = "done"
    /\ Len(calls) = 4
    /\ calls[2].ok
    /\ calls[3].op = "query_documents"
    /\ Len(calls[3].genres) = 2
    /\ ~calls[3].ok

\* C7: when the model call of "Final Response" fails, final_response stays
\* empty, the run is at its end, and run returns the empty text.
C7_FinalFailure ==
    \A i \in DOMAIN calls :
        (calls[i].node = "Final Response" /\ ~calls[i].ok) =>
            /\ state.final_response = <<>>
            /\ AtTerminal
            /\ (pc = "done" /\ mode = "run") =>
                   returned = [kind |-> "text", value |-> <<>>]

\* run returned the empty text after filtering had produced recommendations.
C7_Witness ==
    /\ pc = "done"
    /\ mode = "run"
    /\ state.filtered_recommendations # <<>>
    /\ ~calls[Len(calls)].ok
    /\ returned = [kind |-> "text", value |-> <<>>]

\* C8 as stated: for the empty user input, user_preferences is empty, the run
\* goes straight to "Final Response" and final_response at the end is empty.
C8_Original ==
    (AtTerminal /\ state.user_input = <<>>) =>
        /\ state.user_preferences = <<>>
        /\ trace = <<"User Interaction", "Final Response">>
        /\ state.final_response = <<>>

\* C8, amended: for the empty user input no error is raised; user_preferences
\* is empty exactly when the first model call fails or answers the empty
\* text, and then the run goes straight to "Final Response"; final_response
\* at the end is what the last model call answered, and empty when it failed.
C8_EmptyInput ==
    (pc # "idle" /\ state.user_input = <<>>) =>
        /\ pc # "raised"
        /\ Len(trace) >= 1 =>
              /\ state.user_preferences = <<>> <=> (~calls[1].ok \/ calls[1].text = <<>>)
              /\ state.user_preferences = <<>> => After(1) = "Final Response"
        /\ AtTerminal =>
              /\ calls[Len(calls)].node = "Final Response"
              /\ state.final_response =
                     IF calls[Len(calls)].ok THEN calls[Len(calls)].text ELSE <<>>
        /\ (pc = "done" /\ mode = "run") =>
               returned = [kind |-> "text", value |-> state.final_response]

\* The scenario of the claim: empty input, empty preferences, empty answer.
C8_Witness ==
    /\ pc = "done"
    /\ state.user_input = <<>>
    /\ state.user_preferences = <<>>
    /\ trace = <<"User Interaction", "Final Response">>
    /\ state.final_response = <<>>

Fields == {"user_input", "user_preferences", "retrieved_items",
           "filtered_recommendations", "final_response"}

\* The step leaves every field of the state dict but f as it was.
SameBut(f) == \A g \in Fields \ {f} : state'[g] = state[g]

\* C9: once the initial state is built user_input never changes, and a stage
\* changes at most its own field: "User Interaction" user_preferences,
\* "Retrieval" retrieved_items, "Filtering" filtered_recommendations,
\* "Final Response" final_response.
C9_StagesWriteOwnField ==
    [][ /\ pc # "idle" => state'.user_input = state.user_input
        /\ pc = "User Interaction" => SameBut("user_preferences")
        /\ pc = "Retrieval" => SameBut("retrieved_items")
        /\ pc = "Filtering" => SameBut("filtered_recommendations")
        /\ pc = "Final Response" => SameBut("final_response")
        /\ pc \in {"END", "done", "raised"} => state' = state ]_vars

\* Every stage has written its field and the run ended.
C9_Witness ==
    /\ pc = "done"
    /\ \A f \in Fields : state[f] # <<>>

\* c is a whole word of text once lower-cased: a run of non-blank characters
\* with a blank or an end of the text on either side, equal to c up to case.
IsWordOf(c, text) ==
    \E i \in 1..Len(text) :
        LET j == i + Len(c) - 1
        IN  /\ Len(c) >= 1
            /\ j <= Len(text)
            /\ \A k \in 1..Len(c) : ~IsSpace(text[i + k - 1]) /\ LowerChar(text[i + k - 1]) = c[k]
            /\ i = 1 \/ IsSpace(text[i - 1])
            /\ j = Len(text) \/ IsSpace(text[j + 1])

QueryCalls == {i \in DOMAIN calls : calls[i].op = "query_documents"}

\* C10: the categories "Retrieval" selects (those it asks query_documents for)
\* are exactly the categories of the store that equal, up to the case of the
\* preference text, a whole blank-separated word of user_preferences; when
\* there is none, query_documents is not called.
C10_SelectedCategories ==
    (Executed("Retrieval") /\ calls[2].ok) =>
        LET wanted == {c \in CategorySet(store) : IsWordOf(c, state.user_preferences)}
        IN  IF wanted = {}
            THEN QueryCalls = {}
            ELSE /\ Cardinality(QueryCalls) = 1
                 /\ \A i \in QueryCalls :
                        /\ Range(calls[i].genres) = wanted
                        /\ Len(calls[i].genres) = Cardinality(wanted)

\* A category was selected through an upper-case word of the preferences,
\* while the store also holds a category that only spans two of their words.
C10_Witness ==
    /\ Executed("Retrieval")
    /\ state.user_preferences = <<"A", " ", "b">>
    /\ <<"a", " ", "b">> \in CategorySet(store)
    /\ \E i \in QueryCalls : calls[i].genres = << <<"a">> >>

\* The rows the store answers for the k-th genre of the call in progress.
PerCategory(k) == Matching(store, db.genres[k])

\* How many rows the first k genres of the call match, one by one.
RECURSIVE MatchCount(_)
MatchCount(k) == IF k = 0 THEN 0 ELSE MatchCount(k - 1) + Len(PerCategory(k))

\* C11: when no store query fails, query_documents(C) returns, for each genre
\* of C in the order of C, the rows that genre matches, a row once for every
\* genre that matches it, so that the length of the result is the sum of the
\* numbers of matches; it makes one store query per genre, none for an empty C.
C11_QueryConcatenates ==
    db.pc = "returned" =>
        /\ db.queries = Len(db.genres)
        /\ Len(db.all_data) = MatchCount(Len(db.genres))
        /\ \A k \in 1..Len(db.genres) : \A j \in 1..Len(PerCategory(k)) :
               db.all_data[MatchCount(k - 1) + j] = PerCategory(k)[j]
        /\ db.genres = <<>> => (db.all_data = <<>> /\ db.queries = 0)

\* Three rows match the first genre and two the second: five items returned.
C11_Witness ==
    /\ db.pc = "returned"
    /\ db.genres = << <<"a">>, <<"b">> >>
    /\ Len(PerCategory(1)) = 3
    /\ Len(PerCategory(2)) = 2
    /\ Len(db.all_data) = 5

\* C14: the calls of get_available_categories made against the same store
\* return the same set of categories (the order of the list may differ), and
\* a call leaves the store as it was.
C14_ListCategoriesRepeatable ==
    /\ [](\A i, j \in DOMAIN db.lists : Range(db.lists[i]) = Range(db.lists[j]))
    /\ [][db'.lists # db.lists => store' = store]_vars

\* Two calls returned the categories in different orders.
C14_Witness ==
    /\ Len(db.lists) = 2
    /\ db.lists[1] # db.lists[2]
    /\ Range(db.lists[1]) = CategorySet(store)

\* C18: when a store query of query_documents fails after the queries for
\* earlier categories succeeded, nothing of what these fetched is stored:
\* retrieved_items stays empty.
C18_QueryAllOrNothing ==
    \A i \in QueryCalls :
        calls[i].failedAt >= 2 =>
            /\ state.retrieved_items = <<>>
            /\ ~Executed("Filtering")

\* The second store query failed after the first had fetched a row.
C18_Witness ==
    /\ pc = "done"
    /\ \E i \in QueryCalls :
           /\ calls[i].failedAt = 2
           /\ Matching(store, calls[i].genres[1]) # <<>>
    /\ state.retrieved_items = <<>>

\* The stages a run goes through, as the state it ends in determines them.
StagesFor(s) ==
    IF s.user_preferences = <<>>
    THEN <<"User Interaction", "Final Response">>
    ELSE IF s.retrieved_items = <<>>
         THEN <<"User Interaction", "Retrieval", "Final Response">>
         ELSE <<"User Interaction", "Retrieval", "Filtering", "Final Response">>

IsPrefix(p, q) == Len(p) <= Len(q) /\ SubSeq(q, 1, Len(p)) = p

\* C15: each stage runs at most once, and the stages run, with the one about
\* to run, are always the beginning of the sequence the current state
\* determines: straight to "Final Response" when user_preferences is empty,
\* through "Retrieval" when retrieved_items is empty, through "Filtering" too
\* otherwise, whatever the model call of "Filtering" did.
C15_StageSequence ==
    /\ \A n \in Nodes : TimesExecuted(n) <= 1
    /\ pc \in Nodes => IsPrefix(Append(trace, pc), StagesFor(state))
    /\ AtTerminal => trace = StagesFor(state)

\* All four stages ran although the model call of "Filtering" failed.
C15_Witness ==
    /\ pc = "done"
    /\ Len(trace) = 4
    /\ \E i \in DOMAIN calls : calls[i].node = "Filtering" /\ ~calls[i].ok
    /\ state.filtered_recommendations = <<>>

\* C16: filtered_recommendations is not empty only if retrieved_items is not,
\* and retrieved_items is not empty only if user_preferences is not.
C16_FieldsFilledInOrder ==
    /\ state.filtered_recommendations # <<>> => state.retrieved_items # <<>>
    /\ state.retrieved_items # <<>> => state.user_preferences # <<>>

\* Items were retrieved and recommendations filtered from them.
C16_Witness ==
    /\ state.filtered_recommendations # <<>>
    /\ Len(state.retrieved_items) = 2
    /\ state.user_preferences # <<>>

LlmNodes == {"User Interaction", "Filtering", "Final Response"}

CallsBy(client, node) ==
    {i \in DOMAIN calls : calls[i].client = client /\ calls[i].node = node}

ListCalls == {i \in DOMAIN calls : calls[i].op = "get_available_categories"}

\* C17: the model is called once by each executed stage among "User
\* Interaction", "Filtering" and "Final Response", failed or not, and by no
\* other (two or three calls in a finished run); the store is called only by
\* "Retrieval", at most once to list the categories and at most once to
\* query the documents.
C17_CallCounts ==
    /\ \A n \in LlmNodes : Cardinality(CallsBy("llm", n)) = TimesExecuted(n)
    /\ CallsBy("llm", "Retrieval") = {}
    /\ \A i \in CallsOf("db") : calls[i].node = "Retrieval"
    /\ Cardinality(ListCalls) <= 1
    /\ Cardinality(QueryCalls) <= 1
    /\ Cardinality(ListCalls) + Cardinality(QueryCalls) = Cardinality(CallsOf("db"))
    /\ AtTerminal => Cardinality(CallsOf("llm")) \in {2, 3}

\* Filtering's call failed and was not repeated: three model calls, two
\* store calls, and "Final Response" asked the model with nothing filtered.
C17_Witness ==
    /\ pc = "done"
    /\ Cardinality(CallsOf("llm")) = 3
    /\ Cardinality(CallsOf("db")) = 2
    /\ ~calls[4].ok
    /\ calls[5].node = "Final Response"

\* C12: with the stage steps of several runs interleaved in every order, a
\* step of one run leaves the state of every other run as it was, and the
\* state of each run, at every step and at its end, is the one the run
\* reaches alone from the same input and the same client responses.
C12_RunsIsolated ==
    /\ [](\A r \in DOMAIN runs :
              runs[r].pc # "idle" => heap[state_slot(r)] = runs[r].alone)
    /\ [][\A r \in DOMAIN runs :
              runs'[r] = runs[r] => heap'[state_slot(r)] = heap[state_slot(r)]]_vars

\* Two runs are under way at once, at different stages and on different
\* inputs, the first with recommendations another step will format.
C12_Witness ==
    /\ Len(runs) >= 2
    /\ runs[1].pc = "Final Response"
    /\ runs[2].pc = "Retrieval"
    /\ runs[1].input # runs[2].input
    /\ heap[1].filtered_recommendations # <<>>
    /\ heap[2].user_preferences # <<>>
    /\ heap[2].retrieved_items = <<>>

\* C13: run and get_state start from the initial state of their input, with
\* every derived field empty; given the same input and the same client
\* responses they visit the same stages and reach the same state, and the
\* text run returns is the final_response of the state get_state returns.
C13_RunAndGetStateAgree ==
    /\ \A r \in DOMAIN runs :
           runs[r].pc # "idle" /\ runs[r].trace = <<>> =>
               /\ heap[state_slot(r)] = initial_state(runs[r].input)
               /\ \A f \in Fields \ {"user_input"} : heap[state_slot(r)][f] = <<>>
    /\ \A p, q \in DOMAIN runs :
           /\ runs[p].mode = "run"
           /\ runs[q].mode = "get_state"
           /\ runs[p].input = runs[q].input
           /\ runs[p].calls = runs[q].calls
           => /\ runs[p].trace = runs[q].trace
              /\ heap[state_slot(p)] = heap[state_slot(q)]
              /\ runs[p].pc = "done" /\ runs[q].pc = "done" =>
                     /\ runs[q].returned.kind = "state"
                     /\ runs[p].returned =
                            [kind |-> "text",
                             value |-> runs[q].returned.value.final_response]

\* A run and a get_state on the same input got the same answers through all
\* four stages, and both returned.
C13_Witness ==
    /\ Len(runs) >= 2
    /\ runs[1].mode = "run" /\ runs[2].mode = "get_state"
    /\ runs[1].pc = "done" /\ runs[2].pc = "done"
    /\ runs[1].input = <<"x">> /\ runs[2].input = <<"x">>
    /\ runs[1].calls = runs[2].calls
    /\ Len(runs[1].trace) = 4
    /\ runs[1].returned.kind = "text"
    /\ runs[1].returned.value # <<>>
    /\ runs[2].returned.value.filtered_recommendations # runs[1].returned.value

====
